---- MODULE Spec2Model ----
\* Partition planning of elastic-scan: scan_index of elastic_scan.py (the
\* coordinator strategy, one count query for the whole index) and scan_index
\* of elastic_scan/scanner.py (the shard-local strategy, one plan per primary
\* shard), the delayed __scan work units they return, and the execution of
\* those units.
EXTENDS Integers, Sequences, FiniteSets, TLC

VARIABLES
    strategy,   \* which module is imported: "coordinator" or "shardlocal"
    capture,    \* how delayed() keeps a dict argument: "reference" or "snapshot"
    heap,       \* the query dicts, by object identity
    status,     \* "idle", "returned", "raised" (ZeroDivisionError) or "computed"
    call,       \* the arguments and cluster answers of the scan_index call in progress
    units,      \* _dataholder: the delayed __scan calls scan_index returned
    origin,     \* per unit, the loop position (_shard, _sliceidx) it was appended at
    opened      \* per unit, the search request __elastic_scanner issued for it

vars == <<strategy, capture, heap, status, call, units, origin, opened>>

\* ------------------------------------------------------------------ bounds

MaxDocs == 4
MaxScroll == 2
MaxShards == 2

\* ------------------------------------------------------- program constants

AGGREGATION == "aggregation"
HITS == "hits"
DefaultScrollSize == 10000
DefaultTimeout == "1m"

\* ------------------------------------------------------------------ inputs

ScrollSizes == (-1 .. MaxScroll) \cup {DefaultScrollSize}
Timeouts == {DefaultTimeout, "5m"}
ResponseTypes == {HITS, AGGREGATION}
Alias == "logs"
CoordinatorClient == <<"http://", 0, ":9200">>

\* The dict objects a call can receive as `query`: the default `{}` that the
\* def statement of scan_index created once, or a dict of the caller.
DefaultQuery == "default"
CallerQuery == "caller"
QueryObjs == {DefaultQuery, CallerQuery}

NoSlice == <<>>
FreshHeap ==
    [q \in QueryObjs |->
        [filter |-> IF q = DefaultQuery THEN "empty" ELSE "match", slice |-> NoSlice]]

\* cat.shards for the alias: the index holds at most MaxDocs documents, spread
\* over at most MaxShards primaries; the rows come sorted by index (the first
\* `firsts` primaries belong to logs-1), each primary followed by its replica
\* when the index is replicated.
RECURSIVE Splits(_, _)
Splits(m, total) ==
    IF m = 0 THEN {<<>>}
    ELSE UNION {{Append(s, d) : s \in Splits(m - 1, total - d)} : d \in 0 .. total}

Row(split, firsts, i, prirep) ==
    [shard |-> i - 1, docs |-> split[i],
     ip |-> IF prirep = "p" THEN i ELSE i + Len(split),
     index |-> IF i <= firsts THEN "logs-1" ELSE "logs-2", prirep |-> prirep]

Catalog(split, firsts, replicated) ==
    IF replicated
    THEN [j \in 1 .. 2 * Len(split) |->
             Row(split, firsts, (j + 1) \div 2, IF j % 2 = 1 THEN "p" ELSE "r")]
    ELSE [j \in 1 .. Len(split) |-> Row(split, firsts, j, "p")]

Catalogs ==
    UNION {UNION {{Catalog(s, k, r) : k \in 0 .. m, r \in BOOLEAN} :
                      s \in Splits(m, MaxDocs)} : m \in 0 .. MaxShards}

NoCall ==
    [index |-> Alias, query |-> DefaultQuery, scroll_size |-> DefaultScrollSize,
     timeout |-> DefaultTimeout, responsetype |-> HITS, doc_count |-> 0,
     shards |-> <<>>, pre |-> FreshHeap]

\* --------------------------------------------------------- pure functions

\* Python's // : the floor of the quotient, for a divisor of either sign.
PyFloorDiv(a, b) == IF b > 0 THEN a \div b ELSE (0 - a) \div (0 - b)

\* Variant: the count without the page for the remainder.
GetNPartitionsNoPlusOne(doc_count, scroll_size) == PyFloorDiv(doc_count, scroll_size)

GetNPartitions(doc_count, scroll_size) == PyFloorDiv(doc_count, scroll_size) + 1

\* __add_slice writes into the dict it is given and returns that same dict.
AddSlice(h, query, sliceid, slicemax) ==
    [heap |-> [h EXCEPT ![query].slice = <<sliceid, slicemax>>], query |-> query]

\* Variant: the unit is sent to the caller's client_address.
ShardClientCoordinator(endpoint) == CoordinatorClient

\* f"http://{_shard['endpoint']}:9200"
ShardClient(endpoint) == <<"http://", endpoint, ":9200">>

\* __get_shard_info: the primaries that hold at least one document.
IsPrimaryWithDocs(row) == row.prirep = "p" /\ row.docs > 0

GetShardInfo(catalog) ==
    LET kept == SelectSeq(catalog, IsPrimaryWithDocs)
    IN  [i \in 1 .. Len(kept) |->
            [shardID |-> kept[i].shard, docCount |-> kept[i].docs,
             endpoint |-> kept[i].ip, index |-> kept[i].index]]

\* delayed(__scan)(...): the unit keeps the arguments of the call. The dict
\* passed as `query` is kept as the object itself or as its content at the time
\* of the call, depending on the task library.
DelayedScan(h, index, client, query, scroll_size, timeout, responsetype) ==
    [index |-> index, client |-> client,
     query |-> [obj |-> query, snap |-> h[query]],
     scroll_size |-> scroll_size, timeout |-> timeout,
     responsetype |-> responsetype]

\* The dict a unit passes as the body of its search.
QueryHeld(u) == IF capture = "reference" THEN heap[u.query.obj] ELSE u.query.snap

\* __elastic_scanner: the search it issues.
ElasticScanner(index, client, query, scroll_size, timeout, responsetype) ==
    [index |-> index, client |-> client, size |-> scroll_size,
     scroll |-> timeout, body |-> query, responsetype |-> responsetype]

\* __scan hands its arguments on, except the timeout.
Scan(index, client, query, scroll_size, timeout, responsetype) ==
    ElasticScanner(index, client, query, scroll_size, "1m", responsetype)

\* ------------------------------------------------- scan_index, hits mode

\* One unit appended to _dataholder, with the loop position it came from.
Emit(st, h, rq, client, index, scroll_size, scope, sliceidx) ==
    [units |-> Append(st.units,
                  DelayedScan(h, index, client, rq.query, scroll_size,
                              rq.timeout, rq.responsetype)),
     origin |-> Append(st.origin, [scope |-> scope, sliceidx |-> sliceidx]),
     heap |-> h,
     remaining |-> st.remaining]

\* elastic_scan.py: for _sliceidx in range(n_partitions), over _doc_count.
RECURSIVE HitsLoopA(_, _, _, _)
HitsLoopA(st, sliceidx, n_partitions, rq) ==
    IF sliceidx >= n_partitions THEN st
    ELSE LET added == AddSlice(st.heap, rq.query, sliceidx, n_partitions)
         IN  IF st.remaining >= rq.scroll_size
             THEN HitsLoopA(
                      [Emit(st, added.heap, [rq EXCEPT !.query = added.query],
                            rq.client, rq.index, rq.scroll_size, 1, sliceidx)
                          EXCEPT !.remaining = st.remaining - rq.scroll_size],
                      sliceidx + 1, n_partitions, rq)
             ELSE HitsLoopA(
                      Emit(st, added.heap, [rq EXCEPT !.query = added.query],
                           rq.client, rq.index, st.remaining, 1, sliceidx),
                      sliceidx + 1, n_partitions, rq)

\* scanner.py: for _sliceidx in range(n_partitions), over _tmp_size of _shard.
RECURSIVE HitsLoopB(_, _, _, _, _, _)
HitsLoopB(st, sliceidx, n_partitions, rq, shard, scope) ==
    IF sliceidx >= n_partitions THEN st
    ELSE LET added == AddSlice(st.heap, rq.query, sliceidx, n_partitions)
         IN  IF st.remaining >= rq.scroll_size
             THEN HitsLoopB(
                      [Emit(st, added.heap, [rq EXCEPT !.query = added.query],
                            ShardClient(shard.endpoint), shard.index,
                            rq.scroll_size, scope, sliceidx)
                          EXCEPT !.remaining = st.remaining - rq.scroll_size],
                      sliceidx + 1, n_partitions, rq, shard, scope)
             ELSE HitsLoopB(
                      [Emit(st, added.heap, [rq EXCEPT !.query = added.query],
                            ShardClient(shard.endpoint), shard.index,
                            st.remaining, scope, sliceidx)
                          EXCEPT !.remaining = st.remaining - st.remaining],
                      sliceidx + 1, n_partitions, rq, shard, scope)

\* scanner.py: for _shard in _shards.
RECURSIVE ShardLoop(_, _, _, _)
ShardLoop(st, scope, shards, rq) ==
    IF scope > Len(shards) THEN st
    ELSE ShardLoop(
             HitsLoopB([st EXCEPT !.remaining = shards[scope].docCount], 0,
                       GetNPartitions(shards[scope].docCount, rq.scroll_size),
                       rq, shards[scope], scope),
             scope + 1, shards, rq)

\* ------------------------------------------ scan_index, aggregation mode

\* list(set([_shard['index'] for _shard in _shards])): the distinct indices,
\* in the order the set happens to iterate.
Orders(S) ==
    {o \in [1 .. Cardinality(S) -> S] :
        \A i, j \in 1 .. Cardinality(S) : o[i] = o[j] => i = j}

\* Variant: one entry per shard, without the set().
UniqueIndicesNoDedup(shards) == {[i \in 1 .. Len(shards) |-> shards[i].index]}

UniqueIndices(shards) == Orders({shards[i].index : i \in 1 .. Len(shards)})

RECURSIVE AggLoopB(_, _, _, _)
AggLoopB(st, i, unique_indices, rq) ==
    IF i > Len(unique_indices) THEN st
    ELSE AggLoopB(Emit(st, st.heap, rq, rq.client, unique_indices[i],
                       rq.scroll_size, i, -1),
                  i + 1, unique_indices, rq)

\* ----------------------------------------------------------------- actions

Request(query, scroll_size, timeout, responsetype) ==
    [index |-> Alias, client |-> CoordinatorClient, query |-> query,
     scroll_size |-> scroll_size, timeout |-> timeout,
     responsetype |-> responsetype]

Start(h) == [units |-> <<>>, origin |-> <<>>, heap |-> h, remaining |-> 0]

Returns(st) ==
    /\ status' = "returned"
    /\ units' = st.units
    /\ origin' = st.origin
    /\ heap' = st.heap

Raises ==
    /\ status' = "raised"
    /\ UNCHANGED <<units, origin, heap>>

\* elastic_scan.py scan_index.
ScanIndexA(query, scroll_size, timeout, responsetype, doc_count) ==
    LET rq == Request(query, scroll_size, timeout, responsetype)
        st0 == Start(heap)
    IN  /\ call' = [index |-> Alias, query |-> query, scroll_size |-> scroll_size,
                    timeout |-> timeout, responsetype |-> responsetype,
                    doc_count |-> doc_count, shards |-> <<>>, pre |-> heap]
        /\ IF responsetype = HITS
           THEN IF scroll_size = 0
                THEN Raises
                ELSE LET n_partitions == GetNPartitions(doc_count, scroll_size)
                     IN  IF n_partitions > 1
                         THEN Returns(HitsLoopA([st0 EXCEPT !.remaining = doc_count],
                                                0, n_partitions, rq))
                         ELSE Returns(Emit(st0, heap, rq, rq.client, rq.index,
                                           doc_count, 1, -1))
           ELSE Returns(Emit(st0, heap, rq, rq.client, rq.index, scroll_size, 1, -1))
        /\ UNCHANGED <<strategy, capture, opened>>

\* scanner.py scan_index.
ScanIndexB(query, scroll_size, timeout, responsetype, catalog, unique_indices) ==
    LET rq == Request(query, scroll_size, timeout, responsetype)
        shards == GetShardInfo(catalog)
    IN  /\ unique_indices \in UniqueIndices(shards)
        /\ call' = [index |-> Alias, query |-> query, scroll_size |-> scroll_size,
                    timeout |-> timeout, responsetype |-> responsetype,
                    doc_count |-> 0, shards |-> shards, pre |-> heap]
        /\ IF responsetype = HITS
           THEN IF scroll_size = 0 /\ Len(shards) > 0
                THEN Raises
                ELSE Returns(ShardLoop(Start(heap), 1, shards, rq))
           ELSE Returns(AggLoopB(Start(heap), 1, unique_indices, rq))
        /\ UNCHANGED <<strategy, capture, opened>>

\* The scheduler runs every unit: __scan with the arguments the unit holds.
Compute ==
    /\ status = "returned"
    /\ status' = "computed"
    /\ opened' = [k \in 1 .. Len(units) |->
                     Scan(units[k].index, units[k].client, QueryHeld(units[k]),
                          units[k].scroll_size, units[k].timeout,
                          units[k].responsetype)]
    /\ UNCHANGED <<strategy, capture, heap, call, units, origin>>

\* The caller drops the units and builds the query of its next request; the
\* default dict of scan_index lives on with the function.
Discard ==
    /\ status \in {"returned", "raised", "computed"}
    /\ status' = "idle"
    /\ call' = NoCall
    /\ units' = <<>>
    /\ origin' = <<>>
    /\ opened' = <<>>
    /\ heap' = [heap EXCEPT ![CallerQuery] = FreshHeap[CallerQuery]]
    /\ UNCHANGED <<strategy, capture>>

Init ==
    /\ strategy \in {"coordinator", "shardlocal"}
    /\ capture \in {"reference", "snapshot"}
    /\ heap = FreshHeap
    /\ status = "idle"
    /\ call = NoCall
    /\ units = <<>>
    /\ origin = <<>>
    /\ opened = <<>>

\* The caller invokes scan_index of the module it imported.
CallA ==
    /\ strategy = "coordinator"
    /\ status = "idle"
    /\ \E query \in QueryObjs, scroll_size \in ScrollSizes, timeout \in Timeouts,
          responsetype \in ResponseTypes, doc_count \in 0 .. MaxDocs :
           ScanIndexA(query, scroll_size, timeout, responsetype, doc_count)

CallB ==
    /\ strategy = "shardlocal"
    /\ status = "idle"
    /\ \E query \in QueryObjs, scroll_size \in ScrollSizes, timeout \in Timeouts,
          responsetype \in ResponseTypes, catalog \in Catalogs :
           \E unique_indices \in UniqueIndices(GetShardInfo(catalog)) :
               ScanIndexB(query, scroll_size, timeout, responsetype, catalog,
                          unique_indices)

Next == CallA \/ CallB \/ Compute \/ Discard

Spec == Init /\ [][Next]_vars

\* ------------------------------------------------ what the claims speak of

Done == status \in {"returned", "computed"}

\* A planning scope: the whole index (coordinator) or one discovered shard.
NScopes == IF strategy = "coordinator" THEN 1 ELSE Len(call.shards)

ScopeDocs(i) ==
    IF strategy = "coordinator" THEN call.doc_count ELSE call.shards[i].docCount

UnitsOf(i) == {j \in 1 .. Len(units) : origin[j].scope = i}

\* Position of unit j among the units of its scope, from 0.
PositionInScope(j) ==
    Cardinality({l \in UnitsOf(origin[j].scope) : l < j})

RECURSIVE SumSizes(_)
SumSizes(S) ==
    IF S = {} THEN 0
    ELSE LET j == CHOOSE x \in S : TRUE
         IN  units[j].scroll_size + SumSizes(S \ {j})

RECURSIVE SumOver(_, _)
SumOver(f, n) == IF n = 0 THEN 0 ELSE f[n] + SumOver(f, n - 1)

CeilDiv(a, b) == (a + b - 1) \div b

MaxOf(a, b) == IF a >= b THEN a ELSE b

HitsPlan == Done /\ call.responsetype = HITS /\ call.scroll_size >= 1

\* C1: for totalDocs >= 0 and pageSize >= 1, the number of partitions of a
\* hits-mode scope is max(1, ceil(totalDocs / pageSize)); totalDocs = pageSize
\* gives one partition that owns pageSize documents.
C1_CeilPartitions ==
    HitsPlan =>
        \A i \in 1 .. NScopes :
            /\ GetNPartitions(ScopeDocs(i), call.scroll_size)
                   = MaxOf(1, CeilDiv(ScopeDocs(i), call.scroll_size))
            /\ Cardinality(UnitsOf(i))
                   = MaxOf(1, CeilDiv(ScopeDocs(i), call.scroll_size))
            /\ ScopeDocs(i) = call.scroll_size =>
                   \A j \in UnitsOf(i) : units[j].scroll_size = call.scroll_size

\* C2: in hits mode with pageSize >= 1, the page sizes of the units of one
\* scope are all non-negative and sum to the document count of that scope, and
\* every unit belongs to a scope.
C2_SizesSumToDocs ==
    HitsPlan =>
        /\ \A j \in 1 .. Len(units) :
               origin[j].scope \in 1 .. NScopes /\ units[j].scroll_size >= 0
        /\ \A i \in 1 .. NScopes : SumSizes(UnitsOf(i)) = ScopeDocs(i)

C2_Witness ==
    /\ HitsPlan
    /\ \E i \in 1 .. NScopes :
           /\ Cardinality(UnitsOf(i)) >= 2
           /\ \E j \in UnitsOf(i) :
                  units[j].scroll_size > 0 /\ units[j].scroll_size < call.scroll_size

C4_DefaultSubstituted ==
    (status # "idle" /\ call.scroll_size < 1) =>
        /\ status # "raised"
        /\ call.responsetype = AGGREGATION =>
               \A j \in 1 .. Len(units) : units[j].scroll_size = DefaultScrollSize
        /\ call.responsetype = HITS =>
               \A i \in 1 .. NScopes : SumSizes(UnitsOf(i)) = ScopeDocs(i)

\* C5: scan_index leaves the query dict it was given (the caller's, or the
\* shared default) as it was before the call.
C5_QueryUnchanged ==
    status # "idle" => heap[call.query] = call.pre[call.query]

\* C6: after any sequence of calls, a hits-mode scope that needs one partition
\* (fewer documents than a page) gives one unit that owns all documents of the
\* scope and whose query has no slice descriptor.
C6_SinglePartitionUnsliced ==
    HitsPlan =>
        \A i \in 1 .. NScopes :
            ScopeDocs(i) < call.scroll_size =>
                /\ Cardinality(UnitsOf(i)) = 1
                /\ \A j \in UnitsOf(i) :
                       /\ units[j].scroll_size = ScopeDocs(i)
                       /\ QueryHeld(units[j]).slice = NoSlice

\* C7: a call that returns (pageSize >= 1) returns at least one unit; a hits
\* scan of a target with no documents returns one unit that owns 0 documents.
C7_AtLeastOneUnit ==
    (Done /\ call.scroll_size >= 1) =>
        /\ Len(units) >= 1
        /\ (call.responsetype = HITS
            /\ SumOver([i \in 1 .. NScopes |-> ScopeDocs(i)], NScopes) = 0) =>
               Len(units) = 1 /\ units[1].scroll_size = 0

ShardIndices == {call.shards[i].index : i \in 1 .. Len(call.shards)}

\* C8: in aggregation mode no slice is written into the query; the coordinator
\* strategy returns one unit for the index, the shard-local strategy one unit
\* per distinct index among the discovered shards.
C8_AggregationOncePerIndex ==
    (Done /\ call.responsetype = AGGREGATION) =>
        /\ heap = call.pre
        /\ \A j \in 1 .. Len(units) : units[j].responsetype = AGGREGATION
        /\ strategy = "coordinator" =>
               Len(units) = 1 /\ units[1].index = call.index
        /\ strategy = "shardlocal" =>
               /\ Len(units) = Cardinality(ShardIndices)
               /\ \A x \in ShardIndices :
                      Cardinality({j \in 1 .. Len(units) : units[j].index = x}) = 1

C8_Witness ==
    /\ Done
    /\ call.responsetype = AGGREGATION
    /\ strategy = "shardlocal"
    /\ Len(call.shards) = 2
    /\ call.shards[1].index = call.shards[2].index
    /\ Len(units) = 1

\* C9: in the shard-local strategy (hits mode, pageSize >= 1) each discovered
\* shard is planned by running subtraction over its own docCount, its units
\* target its endpoint and its index, and the units number the sum of the
\* per-shard partition counts.
C9_ShardsPlannedIndependently ==
    (HitsPlan /\ strategy = "shardlocal") =>
        /\ Len(units)
               = SumOver([i \in 1 .. NScopes |->
                             (ScopeDocs(i) \div call.scroll_size) + 1], NScopes)
        /\ \A j \in 1 .. Len(units) :
               LET i == origin[j].scope
                   left == ScopeDocs(i) - PositionInScope(j) * call.scroll_size
               IN  /\ i \in 1 .. NScopes
                   /\ \A l \in 1 .. Len(units) : l < j => origin[l].scope <= i
                   /\ units[j].client
                          = <<"http://", call.shards[i].endpoint, ":9200">>
                   /\ units[j].index = call.shards[i].index
                   /\ units[j].scroll_size
                          = IF left >= call.scroll_size THEN call.scroll_size
                            ELSE MaxOf(left, 0)

C9_Witness ==
    /\ HitsPlan
    /\ strategy = "shardlocal"
    /\ call.scroll_size = 2
    /\ Len(call.shards) = 2
    /\ call.shards[1].docCount = 3
    /\ call.shards[2].docCount = 1
    /\ [j \in 1 .. Len(units) |-> units[j].scroll_size] = <<2, 1, 1>>
    /\ units[1].client # units[3].client

\* C10: a unit opens its search session with the timeout the caller passed to
\* scan_index.
C10_SessionTimeoutPassed ==
    status = "computed" =>
        \A k \in 1 .. Len(units) : opened[k].scroll = units[k].timeout

====
